---- MODULE Spec2Model ----
(***************************************************************************)
(* Model of src/python/at/utils/file_utils.py: copy_recursively,           *)
(* rename_sequencial, list_files and the iStr helper, over an explicit     *)
(* file system.                                                            *)
(*                                                                         *)
(* Strings are sequences of one-character strings, so that splitext,       *)
(* lower, str and zfill are computed and not assumed.  A path is a         *)
(* sequence of components (strings); os.path.join(d, n) is Append(d, n).   *)
(* The file system is a function from the paths that exist to entries.     *)
(* A file's data is its byte string.  os.rename and open follow POSIX.     *)
(***************************************************************************)
EXTENDS Integers, Sequences, FiniteSets, TLC

VARIABLES
    py,            \* major version of the interpreter running the module
    fs,            \* the file system: path -> entry
    pc,            \* "idle" | "copy" | "rename" | "list"
    args,          \* arguments of the call in progress
    stack,         \* os.walk: directories still to be listed
    root,          \* os.walk: the directory being yielded
    todo,          \* names listed and not yet iterated over; the listing
                   \* order is unspecified, so any of them may come next
    counter,       \* file_counter (copy) or seq (rename)
    fh,            \* list_files: the output handle f
    fs0,           \* the file system when the call in progress began
    writes,        \* the copyfile / os.rename operations of the call
    hist           \* ended calls, in order: the caller makes one call, and
                   \* may repeat a copy into a directory outside the tree
                   \* with the same arguments

vars == <<py, fs, pc, args, stack, root, todo, counter, fh, fs0, writes,
          hist>>

(***************************************************************************)
(* Bounds                                                                  *)
(***************************************************************************)
MaxRepeats == 1
MaxSrcFiles == 2

(***************************************************************************)
(* Strings                                                                 *)
(***************************************************************************)
None == <<"None">>

Digits == <<"0", "1", "2", "3", "4", "5", "6", "7", "8", "9">>

LowerChar(c) ==
    CASE c = "A" -> "a"
      [] c = "T" -> "t"
      [] c = "S" -> "s"
      [] c = "D" -> "d"
      [] c = "X" -> "x"
      [] OTHER -> c

\* str.lower()
lower(s) == [i \in 1..Len(s) |-> LowerChar(s[i])]

\* str.rfind(".") as a 1-based index, 0 when there is no dot
rfind_dot(p) ==
    IF \E i \in 1..Len(p) : p[i] = "."
    THEN CHOOSE i \in 1..Len(p) :
             p[i] = "." /\ \A j \in (i+1)..Len(p) : p[j] # "."
    ELSE 0

\* os.path.splitext on a file name (no separator in it): the extension
\* starts at the last dot, unless only dots precede that dot.
splitext_dotfiles(p) ==
    LET d == rfind_dot(p) IN
    IF d > 0
    THEN <<SubSeq(p, 1, d - 1), SubSeq(p, d, Len(p))>>
    ELSE <<p, <<>>>>

splitext(p) ==
    LET d == rfind_dot(p) IN
    IF d > 0 /\ \E i \in 1..(d - 1) : p[i] # "."
    THEN <<SubSeq(p, 1, d - 1), SubSeq(p, d, Len(p))>>
    ELSE <<p, <<>>>>

\* s[1:]
tail1(s) == IF s = <<>> THEN <<>> ELSE Tail(s)

RECURSIVE str(_)
\* str(n) for an int n >= 0
str(n) == IF n < 10 THEN <<Digits[n + 1]>>
          ELSE str(n \div 10) \o <<Digits[(n % 10) + 1]>>

RECURSIVE zfill(_, _)
\* str.zfill(width) of a string of digits
zfill(s, width) == IF Len(s) >= width THEN s ELSE zfill(<<"0">> \o s, width)

\* iStr.__init__: str.__init__(self, strMe) is object.__init__ with an extra
\* argument: Python 2 accepts it for a subclass of str, Python 3 raises
\* TypeError (ok is FALSE).  The instance keeps strMe.lower().
iStr(strMe) == [ok |-> py = 2, lowerCaseMe |-> lower(strMe)]

\* iStr.__eq__
iStr_eq(self, other) == self.lowerCaseMe = lower(other)

(***************************************************************************)
(* File system                                                             *)
(***************************************************************************)
File(data, mtime) == [kind |-> "file", data |-> data, mtime |-> mtime]
Dir == [kind |-> "dir", data |-> <<>>, mtime |-> 0]

\* os.path.join
join(d, name) == Append(d, name)

parent(p) == SubSeq(p, 1, Len(p) - 1)
basename(p) == p[Len(p)]

isfile(f, p) == p \in DOMAIN f /\ f[p].kind = "file"
isdir(f, p) == p \in DOMAIN f /\ f[p].kind = "dir"

\* names of the entries of directory d
entries(f, d) == {basename(p) : p \in {q \in DOMAIN f : Len(q) = Len(d) + 1
                                                       /\ parent(q) = d}}

\* the enumeration orders of a finite set: every sequence without repetition
orders(S) == {s \in [1..Cardinality(S) -> S] :
                 \A i, j \in 1..Cardinality(S) : s[i] = s[j] => i = j}

\* the path as text: components joined by "/"
RECURSIVE pathstr(_)
pathstr(p) == IF Len(p) = 1 THEN p[1]
              ELSE pathstr(parent(p)) \o <<"/">> \o basename(p)

\* is directory d the directory top or a directory below it?
inside(d, top) == Len(d) >= Len(top) /\ SubSeq(d, 1, Len(top)) = top

\* files of the tree under d, at any depth
under(f, d) == {p \in DOMAIN f : Len(p) > Len(d) /\ SubSeq(p, 1, Len(d)) = d
                                 /\ f[p].kind = "file"}

(***************************************************************************)
(* The directories and names the model draws from                          *)
(***************************************************************************)
S == <<<<"S">>>>
Sub == <<<<"S">>, <<"i", "_", "1">>>>   \* a subdirectory of S
D == <<<<"D">>>>
X == <<<<"X">>>>                  \* a directory that does not exist

n_a_t == <<"a", ".", "t">>
n_A_T == <<"A", ".", "T">>
n_dot_t == <<".", "t">>
n_a_dot == <<"a", ".">>
n_a == <<"a">>
n_a0_t == <<"a", "0", ".", "t">>
n_i_1_t == <<"i", "_", "1", ".", "t">>
n_o == <<"o">>

SrcPool == {n_a_t, n_A_T, n_dot_t, n_a_dot, n_a, n_i_1_t}
SubPool == {n_a_t}
DestPool == {n_a_t, n_a0_t}
DestDirPool == {n_a0_t}

Exts == {None, <<"T">>, <<>>}
SrcDirs == {S, X}
DestDirs == {D, S, Sub, X}
Stem == <<"i">>
Paddings == {1, 2}
StartNums == {0, 1}
Modes == {"simple", "full", "csv"}
Locs == {join(D, n_o), join(S, n_o), join(S, n_a_t), D}
Sep == <<",">>

\* an initial file holds its own path as text
InitFile(p) == File(pathstr(p), 1)

InitFs(sf, subf, df, dd) ==
    [p \in {S, D, Sub} \cup {join(S, n) : n \in sf}
                       \cup {join(Sub, n) : n \in subf}
                       \cup {join(D, n) : n \in df \cup dd} |->
        IF p \in {S, D, Sub} \/ (parent(p) = D /\ basename(p) \in dd)
        THEN Dir ELSE InitFile(p)]

Init ==
    /\ py \in {2, 3}
    /\ \E sf \in SUBSET SrcPool, subf \in SUBSET SubPool,
          df \in SUBSET DestPool, dd \in SUBSET DestDirPool :
          /\ Cardinality(sf) <= MaxSrcFiles
          /\ Cardinality(dd) <= 1
          /\ df \cap dd = {}
          /\ fs = InitFs(sf, subf, df, dd)
    /\ pc = "idle"
    /\ args = [op |-> "none"]
    /\ stack = <<>>
    /\ root = <<>>
    /\ todo = {}
    /\ counter = 0
    /\ fh = [state |-> "none", path |-> <<>>, buf |-> <<>>]
    /\ fs0 = fs
    /\ writes = {}
    /\ hist = <<>>

\* a call ends: normally (exc = "", log = the number logged) or by the
\* exception exc (nothing is logged: log = -1).  "OSError" stands for the
\* error of a file system call (IOError or OSError in Python 2).  site
\* names the operation of the code in which the call ended: the call that
\* raised, "close" for the close that ends the with block, "return" for a
\* normal end.
End(a, exc, log, before, w, after, handle, site) ==
    /\ pc' = "idle"
    /\ hist' = Append(hist, [op |-> a.op, args |-> a, exc |-> exc,
                             log |-> log, writes |-> w,
                             before |-> before, after |-> after,
                             fh |-> handle.state, out |-> handle.buf,
                             site |-> site])
    /\ args' = a
    /\ fs0' = before
    /\ writes' = w
    /\ fs' = after
    /\ fh' = handle
    /\ stack' = <<>>
    /\ root' = <<>>
    /\ todo' = {}
    /\ counter' = 0

NoHandle == [state |-> "none", path |-> <<>>, buf |-> <<>>]

(***************************************************************************)
(* copy_recursively(src, dest, ext=None)                                   *)
(***************************************************************************)
\* candidate destination names: filename, then base + str(seq) + extension
numbered(dest, filename, seq) ==
    join(dest, splitext(filename)[1] \o str(seq) \o splitext(filename)[2])

RECURSIVE probe(_, _, _, _, _)
\* the while loop of lines 112-115, from dest_path and seq
probe(f, dest, filename, dest_path, seq) ==
    IF isfile(f, dest_path)
    THEN probe(f, dest, filename, numbered(dest, filename, seq), seq + 1)
    ELSE [path |-> dest_path, seq |-> seq]

\* lines 108-115 with the loop left out
resolve_no_probe(f, dest, filename) ==
    [path |-> join(dest, filename), seq |-> 0]

\* lines 108-115 with seq incremented before it is used
resolve_seq_from_1(f, dest, filename) ==
    IF isfile(f, join(dest, filename))
    THEN probe(f, dest, filename, numbered(dest, filename, 1), 2)
    ELSE [path |-> join(dest, filename), seq |-> 0]

\* lines 108-115: dest_path and the final seq
resolve(f, dest, filename) ==
    probe(f, dest, filename, join(dest, filename), 0)

\* shutil.copyfile(src_path, dest_path): can it open both files?
copyfile_ok(f, src_path, dest_path) ==
    /\ isfile(f, src_path)
    /\ ~isdir(f, dest_path)
    /\ isdir(f, parent(dest_path))

\* a move in place of the copy
copyfile_move(f, src_path, dest_path) ==
    [p \in (DOMAIN f \ {src_path}) \cup {dest_path} |->
        IF p = dest_path THEN File(f[src_path].data, 2) ELSE f[p]]

\* shutil.copyfile: dest_path is created or truncated and receives the data
copyfile(f, src_path, dest_path) ==
    (dest_path :> File(f[src_path].data, 2)) @@ f

\* line 105: the extension without the dot
extension_of(filename) == tail1(splitext(filename)[2])

\* line 106
matches(extension, ext) == ext = None \/ iStr_eq(extension, ext)

CallCopy(src, dest, ext) ==
    /\ pc = "idle"
    /\ \/ hist = <<>>
       \/ /\ Len(hist) <= MaxRepeats
          /\ ~inside(dest, src)
          /\ args = [op |-> "copy", src |-> src, dest |-> dest, ext |-> ext]
    /\ pc' = "copy"
    /\ args' = [op |-> "copy", src |-> src, dest |-> dest, ext |-> ext]
    /\ stack' = <<src>>
    /\ root' = <<>>
    /\ todo' = {}
    /\ counter' = 0
    /\ fs0' = fs
    /\ writes' = {}
    /\ fh' = NoHandle
    /\ UNCHANGED <<py, fs, hist>>

\* os.walk lists the next directory: its files, and its subdirectories,
\* which are walked before the directories already pending
WalkDir ==
    /\ pc = "copy"
    /\ todo = {}
    /\ stack # <<>>
    /\ LET d == Head(stack)
           names == entries(fs, d) IN
       IF ~isdir(fs, d)
       THEN /\ stack' = Tail(stack)
            /\ UNCHANGED <<root, todo>>
       ELSE \E do \in orders({n \in names : isdir(fs, join(d, n))}) :
               /\ root' = d
               /\ todo' = {n \in names : ~isdir(fs, join(d, n))}
               /\ stack' = [i \in 1..Len(do) |-> join(d, do[i])] \o Tail(stack)
    /\ UNCHANGED <<py, fs, pc, args, counter, fh, fs0, writes, hist>>

\* the body of the inner loop for one file name, lines 105-118
CopyFile(filename) ==
    /\ pc = "copy"
    /\ filename \in todo
    /\ LET extension == iStr(extension_of(filename))
           src_path == join(root, filename)
           r == resolve(fs, args.dest, filename) IN
       IF ~extension.ok
       THEN /\ End(args, "TypeError", -1, fs0, writes, fs, NoHandle, "iStr")
            /\ UNCHANGED py
       ELSE IF ~matches(extension, args.ext)
       THEN /\ todo' = todo \ {filename}
            /\ UNCHANGED <<py, fs, pc, args, stack, root, counter, fh, fs0,
                           writes, hist>>
       ELSE IF ~copyfile_ok(fs, src_path, r.path)
       THEN /\ End(args, "OSError", -1, fs0, writes, fs, NoHandle, "copyfile")
            /\ UNCHANGED py
       ELSE /\ fs' = copyfile(fs, src_path, r.path)
            /\ writes' = writes \cup {[src |-> src_path, dst |-> r.path,
                                       seq |-> r.seq]}
            /\ counter' = counter + 1
            /\ todo' = todo \ {filename}
            /\ UNCHANGED <<py, pc, args, stack, root, fh, fs0, hist>>

\* line 120, after the walk
CopyDone ==
    /\ pc = "copy"
    /\ todo = {}
    /\ stack = <<>>
    /\ End(args, "", counter, fs0, writes, fs, NoHandle, "return")
    /\ UNCHANGED py

(***************************************************************************)
(* rename_sequencial(src, stem, padding=5, start_num=0)                    *)
(***************************************************************************)
\* lines 142-143
new_name(src, stem, padding, seq, item) ==
    join(src, stem \o <<"_">> \o zfill(str(seq), padding) \o splitext(item)[2])

\* os.rename(old, new) fails when new is a directory
rename_ok(f, old, new) == ~isdir(f, new)

\* os.rename(old, new): new is replaced when it exists
rename(f, old, new) ==
    IF old = new THEN f
    ELSE [p \in (DOMAIN f \ {old}) \cup {new} |-> IF p = new THEN f[old] ELSE f[p]]

\* the number logged at line 147: seq itself
renamed_log(seq, start_num) == seq

CallRename(src, stem, padding, start_num) ==
    /\ pc = "idle"
    /\ hist = <<>>
    /\ LET a == [op |-> "rename", src |-> src, stem |-> stem,
                 padding |-> padding, start_num |-> start_num] IN
       IF ~isdir(fs, src)
       THEN /\ End(a, "OSError", -1, fs, {}, fs, NoHandle, "listdir")
            /\ UNCHANGED py
       ELSE /\ pc' = "rename"
            /\ args' = a
            /\ todo' = entries(fs, src)
            /\ counter' = start_num
            /\ fs0' = fs
            /\ writes' = {}
            /\ fh' = NoHandle
            /\ UNCHANGED <<py, fs, stack, root, hist>>

\* the body of the loop for one item, lines 141-145
RenameItem(item) ==
    /\ pc = "rename"
    /\ item \in todo
    /\ LET old == join(args.src, item)
           new == new_name(args.src, args.stem, args.padding, counter, item) IN
       IF ~isfile(fs, old)
       THEN /\ todo' = todo \ {item}
            /\ UNCHANGED <<py, fs, pc, args, stack, root, counter, fh, fs0,
                           writes, hist>>
       ELSE IF ~rename_ok(fs, old, new)
       THEN /\ End(args, "OSError", -1, fs0, writes, fs, NoHandle, "rename")
            /\ UNCHANGED py
       ELSE /\ fs' = rename(fs, old, new)
            /\ writes' = writes \cup {[src |-> old, dst |-> new,
                                       seq |-> counter]}
            /\ counter' = counter + 1
            /\ todo' = todo \ {item}
            /\ UNCHANGED <<py, pc, args, stack, root, fh, fs0, hist>>

\* line 147, after the loop
RenameDone ==
    /\ pc = "rename"
    /\ todo = {}
    /\ End(args, "", renamed_log(counter, args.start_num), fs0, writes, fs,
           NoHandle, "return")
    /\ UNCHANGED py

(***************************************************************************)
(* list_files(src, mode="simple", loc="files_list.csv", sep=",")           *)
(***************************************************************************)
h_file_name == <<"f", "i", "l", "e", "_", "n", "a", "m", "e">>
h_location == <<"l", "o", "c", "a", "t", "i", "o", "n">>
h_filename == <<"f", "i", "l", "e", "n", "a", "m", "e">>
h_size == <<"s", "i", "z", "e">>
h_last_modified == <<"l", "a", "s", "t", "_", "m", "o", "d", "i", "f", "i",
                     "e", "d">>

\* lines 164-168: the header line without its "\n"
header(mode, sep) ==
    IF mode = "simple" THEN h_file_name
    ELSE h_location \o sep \o h_filename \o sep \o h_size \o sep
         \o h_last_modified

\* os.stat(file_path).st_size
st_size(f, p) == Len(f[p].data)

\* str(os.stat(file_path).st_mtime): a float
st_mtime_str(f, p) == str(f[p].mtime) \o <<".", "0">>

\* lines 176-181: the line of one file without its "\n"
row(f, src, mode, sep, item) ==
    IF mode = "simple" THEN item
    ELSE pathstr(src) \o sep \o item \o sep \o str(st_size(f, join(src, item)))
         \o sep \o st_mtime_str(f, join(src, item))

\* open(loc, "w") fails on a directory and in a directory that is missing
open_ok(f, loc) == ~isdir(f, loc) /\ isdir(f, parent(loc))

\* open(loc, "w") opens before the listing, creating or truncating loc
open_w(f, loc) == (loc :> File(<<>>, 2)) @@ f

RECURSIVE text(_)
\* the lines written, each ended by "\n"
text(lines) == IF lines = <<>> THEN <<>>
               ELSE Head(lines) \o <<"\n">> \o text(Tail(lines))

\* leaving the with block without closing f
with_exit_leak(handle) == handle

\* leaving the with block, normally or by an exception, closes f
with_exit(handle) == [handle EXCEPT !.state = "closed"]

\* The lines written stay in the buffer of f (the output of a directory of
\* this size is shorter than the buffer) and reach the file when f is
\* closed; the device takes the first accepted characters of them.
flushed(f, handle, accepted) ==
    [f EXCEPT ![handle.path] =
         File(SubSeq(text(handle.buf), 1, accepted), 2)]

\* how much of the buffer the device can take at the close: all of it, or
\* less when the device fails (disk full, file size limit)
Accepted(handle) == 0..Len(text(handle.buf))

\* The with block of line 162 is left, normally (exc = "") or by the
\* exception exc raised in site: f is closed, which flushes the buffer.  A
\* flush that the device cuts short raises from the close, in place of exc.
ExitWith(a, exc, site, before, f, handle) ==
    \E accepted \in Accepted(handle) :
        IF accepted = Len(text(handle.buf))
        THEN End(a, exc, -1, before, {}, flushed(f, handle, accepted),
                 with_exit(handle), site)
        ELSE End(a, "OSError", -1, before, {}, flushed(f, handle, accepted),
                 with_exit(handle), "close")

\* os.listdir(src) at line 172, after open(loc, "w")
listdir_after_open(f, src, loc) == entries(f, src)

\* os.stat at line 179 can fail without any fault of the program, on a file
\* that os.path.isfile has just seen (the entry vanished under another
\* process).  f.write only fills the buffer and does not fail.
Faults == {"none", "stat"}

CallList(src, mode, loc, sep) ==
    /\ pc = "idle"
    /\ hist = <<>>
    /\ LET a == [op |-> "list", src |-> src, mode |-> mode, loc |-> loc,
                 sep |-> sep]
           f1 == open_w(fs, loc)
           h0 == [state |-> "open", path |-> loc, buf |-> <<>>]
           h1 == [state |-> "open", path |-> loc, buf |-> <<header(mode, sep)>>]
       IN
       IF ~open_ok(fs, loc)
       THEN /\ End(a, "OSError", -1, fs, {}, fs, NoHandle, "open")
            /\ UNCHANGED py
       ELSE IF mode \notin {"simple", "full"}
       THEN \* line 169: line is not bound
            /\ ExitWith(a, "UnboundLocalError", "header", fs, f1, h0)
            /\ UNCHANGED py
       ELSE IF ~isdir(f1, src)
       THEN \* os.listdir raises
            /\ ExitWith(a, "OSError", "listdir", fs, f1, h1)
            /\ UNCHANGED py
       ELSE /\ pc' = "list"
            /\ args' = a
            /\ fs' = f1
            /\ fh' = h1
            /\ todo' = listdir_after_open(f1, src, loc)
            /\ fs0' = fs
            /\ writes' = {}
            /\ UNCHANGED <<py, stack, root, counter, hist>>

\* the body of the loop for one item, lines 173-183: an entry that is not a
\* file is skipped; for a file, os.stat (mode full) may raise, which leaves
\* the with block; otherwise the line of the file is written to f
ListItem(item, fault) ==
    /\ pc = "list"
    /\ item \in todo
    /\ IF ~isfile(fs, join(args.src, item))
       THEN /\ fault = "none"
            /\ fh' = fh
            /\ todo' = todo \ {item}
            /\ UNCHANGED <<py, fs, pc, args, stack, root, counter, fs0,
                           writes, hist>>
       ELSE IF fault = "stat"
       THEN /\ args.mode = "full"
            /\ ExitWith(args, "OSError", "stat", fs0, fs, fh)
            /\ UNCHANGED py
       ELSE /\ fh' = [fh EXCEPT !.buf = Append(@, row(fs, args.src, args.mode,
                                                      args.sep, item))]
            /\ todo' = todo \ {item}
            /\ UNCHANGED <<py, fs, pc, args, stack, root, counter, fs0,
                           writes, hist>>

\* the loop is over: the with block ends and the call returns
ListDone ==
    /\ pc = "list"
    /\ todo = {}
    /\ ExitWith(args, "", "return", fs0, fs, fh)
    /\ UNCHANGED py

Next ==
    \/ \E src \in SrcDirs, dest \in DestDirs, ext \in Exts :
           CallCopy(src, dest, ext)
    \/ WalkDir
    \/ \E filename \in todo : CopyFile(filename)
    \/ CopyDone
    \/ \E src \in SrcDirs, padding \in Paddings, start_num \in StartNums :
           CallRename(src, Stem, padding, start_num)
    \/ \E item \in todo : RenameItem(item)
    \/ RenameDone
    \/ \E src \in SrcDirs, mode \in Modes, loc \in Locs :
           CallList(src, mode, loc, Sep)
    \/ \E item \in todo, fault \in Faults : ListItem(item, fault)
    \/ ListDone

Spec == Init /\ [][Next]_vars

(***************************************************************************)
(* Properties                                                              *)
(***************************************************************************)
files_in(f, d) == {p \in DOMAIN f : Len(p) = Len(d) + 1 /\ parent(p) = d
                                    /\ f[p].kind = "file"}

Ended(op) == {i \in 1..Len(hist) : hist[i].op = op}

\* C1: copy_recursively never overwrites: over every step of a copy, each
\* file of the destination directory keeps its entry, and each write of the
\* step goes to a path at which no file existed before the step.
C1_NeverOverwrites ==
    [][pc = "copy" =>
         /\ \A p \in files_in(fs, args.dest) :
                p \in DOMAIN fs' /\ fs'[p] = fs[p]
         /\ \A w \in writes' \ writes : ~isfile(fs, w.dst)]_vars

\* a copy that met an occupied name has written its file elsewhere
C1_Witness ==
    /\ pc = "copy"
    /\ \E w \in writes :
           /\ w.seq >= 1
           /\ isfile(fs0, join(args.dest, basename(w.src)))
           /\ fs[join(args.dest, basename(w.src))]
                  = fs0[join(args.dest, basename(w.src))]
           /\ fs[w.dst].data = fs[w.src].data

\* the files of the tree under src that the filter selects (line 106)
selected(f, src, ext) ==
    {p \in under(f, src) :
        ext = None \/ lower(extension_of(basename(p))) = lower(ext)}

\* C2: a copy call that no I/O error aborted has copied exactly the files of
\* the tree whose extension equals the filter without regard to case (all
\* of them without a filter), and logs the number of files it wrote.
C2_CopiesExactlyTheMatching ==
    \A i \in Ended("copy") :
        hist[i].exc # "OSError" =>
            /\ hist[i].exc = ""
            /\ {w.src : w \in hist[i].writes}
                   = selected(hist[i].before, hist[i].args.src, hist[i].args.ext)
            /\ Cardinality(hist[i].writes)
                   = Cardinality(selected(hist[i].before, hist[i].args.src,
                                          hist[i].args.ext))
            /\ hist[i].log = Cardinality(DOMAIN hist[i].after
                                            \ DOMAIN hist[i].before)

\* C3: of two runs with the same source and destination, the second adds one
\* new file per selected source file, under names that were free, and every
\* file the first run wrote still has the data of its source.
C3_SecondRunAddsCopies ==
    (Len(hist) = 2 /\ hist[1].op = "copy" /\ hist[2].op = "copy"
       /\ hist[1].exc # "OSError" /\ hist[2].exc # "OSError") =>
        LET new == DOMAIN hist[2].after \ DOMAIN hist[2].before IN
        /\ Cardinality(new) = Cardinality(selected(hist[2].before,
                                  hist[2].args.src, hist[2].args.ext))
        /\ \A w \in hist[1].writes :
               /\ isfile(hist[2].after, w.dst)
               /\ hist[2].after[w.dst].data = hist[2].after[w.src].data

\* C4: a rename call that ended normally has renamed each of the n regular
\* files once, with the sequence numbers start_num .. start_num + n - 1 and
\* the names built from them, and the directory then holds n regular files
\* under exactly those names.
C4_RenamesEveryFile ==
    \A i \in Ended("rename") :
        hist[i].exc = "" =>
            LET a == hist[i].args
                n == Cardinality(files_in(hist[i].before, a.src))
                after == files_in(hist[i].after, a.src) IN
            /\ Cardinality(hist[i].writes) = n
            /\ {w.seq : w \in hist[i].writes}
                   = a.start_num..(a.start_num + n - 1)
            /\ \A w \in hist[i].writes :
                   basename(w.dst) = a.stem \o <<"_">>
                       \o zfill(str(w.seq), a.padding)
                       \o splitext(basename(w.src))[2]
            /\ Cardinality(after) = n
            /\ after = {w.dst : w \in hist[i].writes}

\* C5: a rename call that ended normally logs the number of renames it
\* performed.
C5_LogsRenameCount ==
    \A i \in Ended("rename") :
        hist[i].exc = "" => hist[i].log = Cardinality(hist[i].writes)

\* does line carry the name item, alone (simple) or as second field (full)?
is_row_of(line, a, item) ==
    IF a.mode = "simple" THEN line = item
    ELSE LET pre == pathstr(a.src) \o a.sep \o item \o a.sep IN
         Len(line) >= Len(pre) /\ SubSeq(line, 1, Len(pre)) = pre

\* C6: a list call in mode simple or full that ended normally has written
\* the header of the mode, then exactly one line per regular file that was in
\* the source directory when it was called.
C6_OneLinePerFile ==
    \A i \in Ended("list") :
        (hist[i].exc = "" /\ hist[i].args.mode \in {"simple", "full"}) =>
            LET a == hist[i].args
                out == hist[i].out
                names == {basename(p) : p \in files_in(hist[i].before, a.src)}
            IN
            /\ Len(out) >= 1
            /\ out[1] = header(a.mode, a.sep)
            /\ Len(out) = 1 + Cardinality(names)
            /\ \A n \in names : \E k \in 2..Len(out) : is_row_of(out[k], a, n)

\* C7: the output handle is open only while list_files runs: every list
\* call that has ended has closed the handle it opened, whether it completed,
\* was given a mode other than simple and full, failed on the directory
\* listing or on os.stat, or failed in the flush of the close itself; only a
\* call whose open failed has no handle.  A mode other than simple and full
\* is not rejected by a check: the call ends on the unbound header line,
\* with the handle closed.
C7_HandleReleased ==
    /\ pc # "list" => fh.state # "open"
    /\ \A i \in Ended("list") :
           LET h == hist[i]
               opened == open_ok(h.before, h.args.loc) IN
           /\ h.site \in {"open", "header", "listdir", "stat", "close",
                          "return"}
           /\ h.site = "open" <=> ~opened
           /\ h.fh = IF opened THEN "closed" ELSE "none"
           /\ h.exc = "" <=> h.site = "return"
           /\ (opened /\ h.args.mode \notin {"simple", "full"})
               => (h.exc = "UnboundLocalError" /\ h.site = "header")
           /\ h.site = "listdir" => ~isdir(h.before, h.args.src)
           /\ h.site = "stat" => h.args.mode = "full"
           /\ h.site = "close" => h.exc = "OSError"

\* a list call in mode full has written a row and then ended on a failing
\* os.stat, with the handle closed and the rows written so far in the file
C7_Witness ==
    /\ pc = "idle"
    /\ \E i \in Ended("list") :
           /\ hist[i].exc = "OSError"
           /\ hist[i].site = "stat"
           /\ Len(hist[i].out) >= 2
           /\ hist[i].fh = "closed"
           /\ fh.state = "closed"
           /\ fs[hist[i].args.loc].data = text(hist[i].out)

\* the source files of the call, as they were when it began, are still there
\* with their data, except the ones in skip
source_kept(skip) ==
    \A p \in under(fs0, args.src) \ skip :
        isfile(fs, p) /\ fs[p].data = fs0[p].data

\* C8 as stated: during and after a copy or list call, whatever the
\* destination and the output path, every file of the source tree is still
\* there with its data.
C8_SourceReadOnly ==
    args.op \in {"copy", "list"} => source_kept({})

\* C8 amended: the same, except that list_files truncates and rewrites the
\* file its output path names, also when that is a file of the source.
C8_SourceReadOnlyButOutput ==
    args.op \in {"copy", "list"} =>
        source_kept(IF args.op = "list" THEN {args.loc} ELSE {})

\* a list call that wrote its output into the source directory has ended
C8_Witness ==
    /\ pc = "idle"
    /\ args.op = "list"
    /\ hist # <<>>
    /\ hist[1].exc = ""
    /\ parent(args.loc) = args.src
    /\ Cardinality(under(fs0, args.src) \ {args.loc}) >= 1

\* the text after the last dot of the name, empty when it has no dot
after_last_dot(p) ==
    IF rfind_dot(p) = 0 THEN <<>> ELSE SubSeq(p, rfind_dot(p) + 1, Len(p))

\* the same, but empty too when nothing but dots precedes the last dot
after_last_dot_of_stem(p) ==
    IF \A i \in 1..(rfind_dot(p) - 1) : p[i] = "." THEN <<>>
    ELSE after_last_dot(p)

\* a step of the copy loop that went on to the next file has copied the file
\* exactly if there is no filter or E(file name) equals the filter without
\* regard to case
compares(E(_)) ==
    (pc = "copy" /\ pc' = "copy" /\ todo' # todo /\ todo # {}) =>
        LET filename == CHOOSE n \in todo : n \notin todo' IN
        (counter' = counter + 1) <=>
            (args.ext = None \/ lower(E(filename)) = lower(args.ext))

\* C9 as stated: the extension compared with the filter is the text after
\* the last dot of the file name, for every name.
C9_ExtensionAfterLastDot == [][compares(after_last_dot)]_vars

\* C9 amended: the extension compared with the filter is the text after the
\* last dot of the file name, and empty when the name has no dot or has only
\* dots before its last dot (".t" has the extension "").
C9_ExtensionOfStem == [][compares(after_last_dot_of_stem)]_vars

\* a name whose only dot is its first character was copied under the filter ""
C9_Witness ==
    /\ args.op = "copy"
    /\ args.ext = <<>>
    /\ \E w \in writes : basename(w.src) = n_dot_t

\* the k-th candidate: the name itself, then base + str(k - 1) + extension
candidate(dest, filename, k) ==
    IF k = 0 THEN join(dest, filename)
    ELSE join(dest, splitext(filename)[1] \o str(k - 1) \o splitext(filename)[2])

\* C10: each copy goes to the first candidate of name, base0ext, base1ext, ...
\* that is not a file, numbered from 0 again for each file, and the number of
\* candidates probed is at most the number of files in the destination plus 1.
C10_FirstFreeCandidate ==
    [][pc = "copy" =>
         \A w \in writes' \ writes :
             /\ w.dst = candidate(args.dest, basename(w.src), w.seq)
             /\ \A k \in 0..(w.seq - 1) :
                    isfile(fs, candidate(args.dest, basename(w.src), k))
             /\ ~isfile(fs, candidate(args.dest, basename(w.src), w.seq))
             /\ w.seq + 1 <= Cardinality(files_in(fs, args.dest)) + 1]_vars

\* two copies of one call met collisions, one of them two in a row
C10_Witness ==
    /\ args.op = "copy"
    /\ \E w1, w2 \in writes : w1 # w2 /\ w1.seq >= 2 /\ w2.seq >= 1

====
